---------------------------- MODULE Spec2Model ----------------------------
(***************************************************************************)
(* Model of pyhealth/models/embedgru.py: the callPredictor network and the *)
(* EmbedGRU controller (construction and validation, fit with its          *)
(* checkpoint policy, load_model, inference, get_results).                 *)
(*                                                                         *)
(* Python values are records [t |-> type tag, v |-> payload].  A float     *)
(* payload n stands for the number n / FloatScale.  A parameter tensor is  *)
(* a record [seed, steps]: the value obtained from the random draw `seed`  *)
(* by `steps` passes of the optimizer.                                     *)
(***************************************************************************)
EXTENDS Integers, Sequences, FiniteSets, TLC

VARIABLES
    pc,               \* where the caller is: new, failed, constructed, fitting, fitted, forward
    self,             \* the controller's hyperparameter fields, loss_name and device
    base_init,        \* the base scaffold initialiser has run
    exc,              \* the exception raised by the last call, or NoExc
    op,               \* the last call made on the controller
    diag,             \* the diagnostics printed by the last call
    predictor,        \* self.predictor, or NoPredictor
    predictor_config, \* the persisted construction config, or NoConfig
    epoch,            \* fit: the loop variable
    best_score,       \* fit: the local best_score
    acc_valid,        \* self.acc['valid']
    checkout_dir,     \* the checkpoint files: label -> unit
    writes,           \* every _save_checkpoint call of the run, in order
    trained,          \* the predictor's parameters when the last unit was built
    loaded_epoch,     \* self._loaded_epoch, or NoLabel
    result_dir,       \* the result files present
    ret,              \* the value returned by the last get_results
    net,              \* forward: the predictor's numeric weights
    batch,            \* forward: the input batch and the recurrent stack's output
    all_output,       \* forward: first return value
    cur_output        \* forward: second return value

vars == <<pc, self, base_init, exc, op, diag, predictor, predictor_config, epoch,
          best_score, acc_valid, checkout_dir, writes, trained, loaded_epoch,
          result_dir, ret, net, batch, all_output, cur_output>>

-----------------------------------------------------------------------------
(* Bounds *)

FloatScale == 2
MaxEpoch == 4
MaxReloadEpoch == 2
MaxLayers == 2
MaxHidden == 1
MaxScore == 5
MaxSeed == 1
MaxT == 2
MaxVal == 2

-----------------------------------------------------------------------------
(* Python values *)

PyInt(n) == [t |-> "int", v |-> n]
PyFloat(n) == [t |-> "float", v |-> n]
PyBool(b) == [t |-> "bool", v |-> b]
PyStr(s) == [t |-> "str", v |-> s]
PyList(q) == [t |-> "list", v |-> q]
PyTuple(q) == [t |-> "tuple", v |-> q]
PyNone == [t |-> "none", v |-> 0]
Unset == [t |-> "unset", v |-> 0]

\* isinstance(x, int): bool is a subclass of int
IsInt(x) == x.t \in {"int", "bool"}
IsFloat(x) == x.t = "float"
IsBool(x) == x.t = "bool"
IsStr(x) == x.t = "str"
IsList(x) == x.t = "list"
\* len(x) is defined
HasLen(x) == x.t \in {"list", "tuple"}
\* the number an int or a bool compares as
Num(x) == IF x.t = "bool" THEN (IF x.v THEN 1 ELSE 0) ELSE x.v

-----------------------------------------------------------------------------
(* EmbedGRU.__init__ and _args_check *)

\* the constructor's keyword arguments, in the order __init__ assigns them
ArgNames == <<"task", "n_batchsize", "n_epoch", "learn_ratio", "weight_decay",
              "n_epoch_saved", "embed_size", "layer_hidden_sizes", "bias", "dropout",
              "bidirectional", "batch_first", "loss_name", "target_repl",
              "target_repl_coef", "aggregate", "optimizer_name", "use_gpu">>

\* the fields of the controller this module sets
FieldNames ==
    {ArgNames[i] : i \in 1..Len(ArgNames)}
        \cup {"num_layers", "device", "input_size", "label_size"}

\* the fields assigned before num_layers = len(layer_hidden_sizes) is evaluated
EarlyFields == {"task", "n_batchsize", "n_epoch", "learn_ratio", "weight_decay",
                "n_epoch_saved", "embed_size", "layer_hidden_sizes"}

NoFields == [f \in FieldNames |-> Unset]
NoExc == [type |-> "none", at |-> "none"]

\* lines 171-178: the assignments that precede len(layer_hidden_sizes)
AssignEarly(args) ==
    [f \in FieldNames |-> IF f \in EarlyFields THEN args[f] ELSE Unset]

\* AssignAll without line 179: num_layers is never derived
AssignAllNoLayers(args) ==
    [f \in FieldNames |->
        IF f \in {"num_layers", "device", "input_size", "label_size"} THEN Unset
        ELSE args[f]]

\* lines 171-189: every field assigned from its argument, num_layers from the length
AssignAll(args) ==
    [f \in FieldNames |->
        CASE f = "num_layers" -> PyInt(Len(args["layer_hidden_sizes"].v))
          [] f \in {"device", "input_size", "label_size"} -> Unset
          [] OTHER -> args[f]]

\* line 383
WeightDecayOk(s) == IsFloat(s["weight_decay"]) /\ s["weight_decay"].v >= 0

\* line 385
EpochSavedOk(s) ==
    /\ IsInt(s["n_epoch_saved"])
    /\ Num(s["n_epoch_saved"]) > 0
    /\ Num(s["n_epoch_saved"]) < Num(s["n_epoch"])

\* line 389: the list's elements are not looked at
HiddenSizesOk(s) ==
    IsList(s["layer_hidden_sizes"]) /\ Len(s["layer_hidden_sizes"].v) > 0

\* DropoutOk with the upper end of the interval closed
DropoutOkClosed(s) ==
    IsFloat(s["dropout"]) /\ s["dropout"].v > 0 /\ s["dropout"].v <= FloatScale

\* line 395
DropoutOk(s) ==
    IsFloat(s["dropout"]) /\ s["dropout"].v > 0 /\ s["dropout"].v < FloatScale

\* _args_check, lines 375-412: the field of the first assertion that fails, or "ok"
ArgsCheck(s) ==
    IF ~(IsStr(s["task"]) /\ s["task"].v \in {"mortality", "phenotyping"}) THEN "task"
    ELSE IF ~(IsInt(s["n_batchsize"]) /\ Num(s["n_batchsize"]) > 0) THEN "n_batchsize"
    ELSE IF ~(IsInt(s["n_epoch"]) /\ Num(s["n_epoch"]) > 0) THEN "n_epoch"
    ELSE IF ~(IsFloat(s["learn_ratio"]) /\ s["learn_ratio"].v > 0) THEN "learn_ratio"
    ELSE IF ~WeightDecayOk(s) THEN "weight_decay"
    ELSE IF ~EpochSavedOk(s) THEN "n_epoch_saved"
    ELSE IF ~(IsInt(s["embed_size"]) /\ Num(s["embed_size"]) > 0) THEN "embed_size"
    ELSE IF ~HiddenSizesOk(s) THEN "layer_hidden_sizes"
    ELSE IF ~(IsInt(s["num_layers"]) /\ Num(s["num_layers"]) > 0) THEN "num_layers"
    ELSE IF ~IsBool(s["bias"]) THEN "bias"
    ELSE IF ~DropoutOk(s) THEN "dropout"
    ELSE IF ~IsBool(s["bidirectional"]) THEN "bidirectional"
    ELSE IF ~IsBool(s["batch_first"]) THEN "batch_first"
    ELSE IF ~IsBool(s["target_repl"]) THEN "target_repl"
    ELSE IF ~(IsFloat(s["target_repl_coef"]) /\ s["target_repl_coef"].v >= 0
                /\ s["target_repl_coef"].v <= FloatScale) THEN "target_repl_coef"
    ELSE IF ~(IsStr(s["aggregate"]) /\ s["aggregate"].v \in {"sum", "avg"}) THEN "aggregate"
    ELSE IF ~(IsStr(s["optimizer_name"]) /\ s["optimizer_name"].v \in {"adam"})
         THEN "optimizer_name"
    ELSE IF ~IsBool(s["use_gpu"]) THEN "use_gpu"
    ELSE IF ~IsStr(s["loss_name"]) THEN "loss_name"
    ELSE "ok"

\* lines 414-415 (_get_lossname and _get_device live in the base class): the loss
\* name is resolved and the device chosen from use_gpu
Resolve(s) ==
    [s EXCEPT !["device"] = PyStr(IF s["use_gpu"].v THEN "cuda" ELSE "cpu")]

\* the state a call leaves untouched outside the controller's construction
CtorFrame ==
    UNCHANGED <<predictor, predictor_config, epoch, best_score, acc_valid,
                checkout_dir, writes, trained, loaded_epoch, result_dir, ret,
                net, batch, all_output, cur_output>>

\* EmbedGRU.__init__, lines 170-190
Construct(args) ==
    /\ pc = "new"
    /\ op' = "__init__"
    /\ diag' = {}
    /\ base_init' = TRUE
    /\ IF ~HasLen(args["layer_hidden_sizes"])
       THEN /\ self' = AssignEarly(args)
            /\ exc' = [type |-> "TypeError", at |-> "num_layers"]
            /\ pc' = "failed"
       ELSE LET s == AssignAll(args)
                bad == ArgsCheck(s)
            IN IF bad = "ok"
               THEN /\ self' = Resolve(s)
                    /\ exc' = NoExc
                    /\ pc' = "constructed"
               ELSE /\ self' = s
                    /\ exc' = [type |-> "AssertionError", at |-> bad]
                    /\ pc' = "failed"
    /\ CtorFrame

-----------------------------------------------------------------------------
(* callPredictor: construction and parameter state *)

NoPredictor == [kind |-> "none"]
NoConfig == [kind |-> "none"]

\* a parameter tensor: the random draw `seed` after `steps` optimizer passes
Param(seed, steps) == [seed |-> seed, steps |-> steps]

\* lines 28-31
LayerInputSizes(cfg) ==
    <<cfg.embed_size>> \o
        [i \in 1..Len(cfg.layer_hidden_sizes) |->
            IF cfg.bidirectional THEN 2 * cfg.layer_hidden_sizes[i]
            ELSE cfg.layer_hidden_sizes[i]]

\* callPredictor.__init__, lines 22-44, with every tensor initialised from the
\* random draw `seed`; rnn_models is a plain list of num_layers GRU modules.  The
\* assertion of line 23 holds for the integer sizes fit takes from its data.
callPredictor(cfg, seed) ==
    [kind |-> "callPredictor",
     wrapped |-> FALSE,
     num_layers |-> cfg.num_layers,
     input_size |-> cfg.input_size,
     embed_size |-> cfg.embed_size,
     label_size |-> cfg.label_size,
     output_size |-> LayerInputSizes(cfg)[Len(LayerInputSizes(cfg))],
     embed_func |-> Param(seed, 0),
     rnn_models |-> [i \in 1..cfg.num_layers |-> Param(seed, 0)],
     output_func |-> Param(seed, 0)]

\* torch.nn.DataParallel(predictor), line 212
DataParallel(p) == [p EXCEPT !.wrapped = TRUE]

\* the parameters of a predictor, whatever wraps it
Parameters(p) ==
    [embed_func |-> p.embed_func, rnn_models |-> p.rnn_models,
     output_func |-> p.output_func]

\* the names of the tensors of the two nn.Linear attributes, the only submodules
\* assigned as attributes (lines 35 and 44; line 25 makes rnn_models a list)
EmbedWeight == <<"e", "m", "b", "e", "d", "_", "f", "u", "n", "c", ".", "w", "e", "i", "g", "h", "t">>
EmbedBias == <<"e", "m", "b", "e", "d", "_", "f", "u", "n", "c", ".", "b", "i", "a", "s">>
OutputWeight == <<"o", "u", "t", "p", "u", "t", "_", "f", "u", "n", "c", ".", "w", "e", "i", "g", "h", "t">>
OutputBias == <<"o", "u", "t", "p", "u", "t", "_", "f", "u", "n", "c", ".", "b", "i", "a", "s">>
RegisteredKeys == {EmbedWeight, EmbedBias, OutputWeight, OutputBias}

\* the prefix DataParallel puts before every key
ModulePrefix == <<"m", "o", "d", "u", "l", "e", ".">>

\* the tensor a registered key names
TensorOf(p, key) ==
    IF key \in {EmbedWeight, EmbedBias} THEN p.embed_func ELSE p.output_func

\* predictor.state_dict(), line 274: the registered tensors, under prefixed keys
\* when the predictor is wrapped
StateDict(p) ==
    IF p.wrapped
    THEN [k \in {ModulePrefix \o key : key \in RegisteredKeys} |->
             TensorOf(p, SubSeq(k, Len(ModulePrefix) + 1, Len(k)))]
    ELSE [k \in RegisteredKeys |-> TensorOf(p, k)]

\* line 318: {key[7:]: value for key, value in state_dict.items()}
StripKeys(sd) ==
    [k \in {SubSeq(key, 8, Len(key)) : key \in DOMAIN sd} |->
        sd[CHOOSE key \in DOMAIN sd : SubSeq(key, 8, Len(key)) = k]]

\* load_state_dict (strict) accepts exactly the registered keys
LoadAccepts(sd) == DOMAIN sd = RegisteredKeys

\* predictor.load_state_dict(sd), line 318: the registered tensors are replaced
LoadStateDict(p, sd) ==
    [p EXCEPT !.embed_func = sd[EmbedWeight], !.output_func = sd[OutputWeight]]

\* one pass of _train (base class): the optimizer steps the tensors that
\* parameters() yields, which are the registered ones
Train(p) ==
    [p EXCEPT !.embed_func = Param(@.seed, @.steps + 1),
              !.output_func = Param(@.seed, @.steps + 1)]

-----------------------------------------------------------------------------
(* The constructor calls explored *)

ArgSet == {ArgNames[i] : i \in 1..Len(ArgNames)}

\* sequences over S of length lo..hi
SeqsOf(S, lo, hi) == UNION {[1..n -> S] : n \in lo..hi}

\* a valid call: the signature's defaults (lines 94-112) with n_epoch and the hidden
\* sizes scaled to the bounds
BaseArgs ==
    [a \in ArgSet |->
        CASE a = "task" -> PyStr("phenotyping")
          [] a = "n_batchsize" -> PyInt(1)
          [] a = "n_epoch" -> PyInt(MaxEpoch)
          [] a = "learn_ratio" -> PyFloat(1)
          [] a = "weight_decay" -> PyFloat(1)
          [] a = "n_epoch_saved" -> PyInt(1)
          [] a = "embed_size" -> PyInt(1)
          [] a = "layer_hidden_sizes" -> PyList(<<1, 1>>)
          [] a = "bias" -> PyBool(TRUE)
          [] a = "dropout" -> PyFloat(1)
          [] a = "bidirectional" -> PyBool(TRUE)
          [] a = "batch_first" -> PyBool(TRUE)
          [] a = "loss_name" -> PyStr("L1LossSigmoid")
          [] a = "target_repl" -> PyBool(FALSE)
          [] a = "target_repl_coef" -> PyFloat(0)
          [] a = "aggregate" -> PyStr("sum")
          [] a = "optimizer_name" -> PyStr("adam")
          [] a = "use_gpu" -> PyBool(FALSE)]

\* another valid choice of the hyperparameters the claims do not single out
AltArgs ==
    [BaseArgs EXCEPT !["task"] = PyStr("mortality"),
                     !["n_batchsize"] = PyBool(TRUE),
                     !["bias"] = PyBool(FALSE),
                     !["bidirectional"] = PyBool(FALSE),
                     !["target_repl"] = PyBool(TRUE),
                     !["target_repl_coef"] = PyFloat(FloatScale),
                     !["aggregate"] = PyStr("avg"),
                     !["use_gpu"] = PyBool(TRUE)]

EpochChoices == {PyInt(n) : n \in 0..MaxEpoch} \cup {PyFloat(FloatScale)}
EpochSavedChoices == {PyInt(n) : n \in 0..MaxEpoch}
WeightDecayChoices == {PyFloat(n) : n \in -1..1} \cup {PyInt(0)}
DropoutChoices == {PyFloat(n) : n \in -1..(FloatScale + 1)} \cup {PyInt(0)}
HiddenChoices ==
    {PyList(q) : q \in SeqsOf(0..MaxHidden, 0, MaxLayers)}
        \cup {PyList(<<-1>>), PyTuple(<<1>>), PyNone}

\* the hyperparameters the joint calls vary
JointNames == {"n_epoch", "n_epoch_saved", "weight_decay", "dropout", "layer_hidden_sizes"}

\* values invalid for every one of the remaining hyperparameters
InvalidChoices == {PyInt(0), PyStr("other"), PyFloat(-1), PyFloat(FloatScale + 1), PyNone}

-----------------------------------------------------------------------------
(* State before construction *)

NoLabel == "<unset>"
NoNet == [kind |-> "none"]
NoBatch == [kind |-> "none"]

Init ==
    /\ pc = "new"
    /\ self = NoFields
    /\ base_init = FALSE
    /\ exc = NoExc
    /\ op = "none"
    /\ diag = {}
    /\ predictor = NoPredictor
    /\ predictor_config = NoConfig
    /\ epoch = 0
    /\ best_score = 0
    /\ acc_valid = <<>>
    /\ checkout_dir = <<>>
    /\ writes = <<>>
    /\ trained = NoPredictor
    /\ loaded_epoch = NoLabel
    /\ result_dir = {}
    /\ ret = PyNone
    /\ net = NoNet
    /\ batch = NoBatch
    /\ all_output = <<>>
    /\ cur_output = 0

\* construction with the hyperparameters of the range checks varied jointly, the
\* rest valid
ConstructJoint ==
    /\ pc = "new"
    /\ \E b \in {BaseArgs, AltArgs}, e \in EpochChoices, es \in EpochSavedChoices,
          wd \in WeightDecayChoices, d \in DropoutChoices, h \in HiddenChoices :
        Construct([b EXCEPT !["n_epoch"] = e, !["n_epoch_saved"] = es,
                            !["weight_decay"] = wd, !["dropout"] = d,
                            !["layer_hidden_sizes"] = h])

\* construction with one of the remaining hyperparameters invalid
ConstructSingle ==
    /\ pc = "new"
    /\ \E a \in ArgSet \ JointNames, x \in InvalidChoices :
        Construct([BaseArgs EXCEPT ![a] = x])

NextCtor == ConstructJoint \/ ConstructSingle

SpecCtor == Init /\ [][NextCtor]_vars

-----------------------------------------------------------------------------
(* Properties of construction (SpecCtor) *)

\* the value of a number in units of 1 / FloatScale
Scaled(x) == IF x.t = "float" THEN x.v ELSE Num(x) * FloatScale
IsNumber(x) == x.t \in {"int", "bool", "float"}

\* C5: when construction fails, no hyperparameter field has been assigned and the
\* base scaffold has not been initialised.
C5_NoMutationBeforeValidation ==
    pc = "failed" =>
        /\ ~base_init
        /\ \A f \in FieldNames : self[f].t = "unset"

\* C5 (amended): when validation fails, the base scaffold initialiser has run and
\* every hyperparameter field holds its argument, num_layers the length of the
\* hidden-size list; the device has not been resolved and no predictor or
\* predictor config exists.
C5_ValidationFollowsAssignment ==
    (pc = "failed" /\ exc.type = "AssertionError") =>
        /\ base_init
        /\ \A f \in ArgSet : self[f].t # "unset"
        /\ self["num_layers"] = PyInt(Len(self["layer_hidden_sizes"].v))
        /\ self["device"].t = "unset"
        /\ predictor = NoPredictor
        /\ predictor_config = NoConfig

\* C5 witness: validation failed on dropout, the last of the range checks, with
\* the fields before and after it assigned.
C5_Witness ==
    /\ pc = "failed"
    /\ exc = [type |-> "AssertionError", at |-> "dropout"]
    /\ self["task"].t = "str"
    /\ self["use_gpu"].t = "bool"

\* C6: an accepted configuration has num_layers equal to the length of a non-empty
\* layer_hidden_sizes whose elements are all strictly positive, and construction
\* with an empty list or a list holding a non-positive size fails.
C6_AcceptedHiddenSizesPositive ==
    LET h == self["layer_hidden_sizes"]
    IN /\ pc = "constructed" =>
             /\ self["num_layers"].v = Len(h.v)
             /\ Len(h.v) > 0
             /\ \A i \in 1..Len(h.v) : h.v[i] > 0
       /\ (op = "__init__" /\ h.t = "list"
             /\ (Len(h.v) = 0 \/ \E i \in 1..Len(h.v) : h.v[i] <= 0))
           => pc = "failed"

\* the controller holds a dropout outside (0,1), an n_epoch_saved >= n_epoch or a
\* negative weight_decay
RangeViolation ==
    \/ /\ IsNumber(self["dropout"])
       /\ (Scaled(self["dropout"]) <= 0 \/ Scaled(self["dropout"]) >= FloatScale)
    \/ /\ IsNumber(self["n_epoch_saved"])
       /\ IsNumber(self["n_epoch"])
       /\ Scaled(self["n_epoch_saved"]) >= Scaled(self["n_epoch"])
    \/ /\ IsNumber(self["weight_decay"])
       /\ Scaled(self["weight_decay"]) < 0

\* C7: construction fails whenever dropout lies outside (0,1) (0 and 1 included),
\* n_epoch_saved >= n_epoch or weight_decay is negative: no such controller is
\* ever constructed, and when validation is reached the failure is an assertion.
C7_RangeViolationsRejected ==
    (op = "__init__" /\ RangeViolation) =>
        /\ pc = "failed"
        /\ (self["dropout"].t # "unset" => exc.type = "AssertionError")

\* C7 witness: a call valid in everything but dropout = 1.0 was rejected at the
\* dropout check.
C7_Witness ==
    /\ pc = "failed"
    /\ exc = [type |-> "AssertionError", at |-> "dropout"]
    /\ self["dropout"] = PyFloat(FloatScale)
    /\ self["weight_decay"] = PyFloat(0)

-----------------------------------------------------------------------------
(* EmbedGRU.fit *)

\* line 266: the initial best_score
InitBest == 100000

\* the validation losses an epoch may produce
ScoreChoices == {MaxScore - k : k \in 0..3} \cup {InitBest, InitBest + 1}

\* the random draws a predictor may be initialised from
Seeds == 0..MaxSeed

\* lines 200-210: the construction config
PredictorConfig(s) ==
    [input_size |-> s["input_size"].v,
     embed_size |-> s["embed_size"].v,
     layer_hidden_sizes |-> s["layer_hidden_sizes"].v,
     num_layers |-> s["num_layers"].v,
     bias |-> s["bias"].v,
     dropout |-> s["dropout"].v,
     bidirectional |-> s["bidirectional"].v,
     batch_first |-> s["batch_first"].v,
     label_size |-> s["label_size"].v]

\* _save_checkpoint (base class): the label of the file a call writes
Label(epoch_id, is_best) ==
    IF is_best THEN "best"
    ELSE IF epoch_id < 0 THEN "latest"
    ELSE ToString(epoch_id)

\* _save_checkpoint (base class): the file of the label is (over)written
SaveCheckpoint(dir, call) ==
    (Label(call.epoch_id, call.is_best) :> call.unit) @@ dir

\* lines 273-277: the unit of an epoch
Unit(e, p, score, best) ==
    [epoch |-> e,
     state_dict |-> StateDict(p),
     score |-> score,
     best_score |-> best,
     optimizer |-> p.embed_func.steps]

\* line 278
Improves(score, best) == score < best

\* MarkBest without line 280: the unit keeps the best_score it was built with
MarkBestStale(unit, score) == unit

\* line 280: unit['best_score'] = best_score, after line 279 set it to the score
MarkBest(unit, score) == [unit EXCEPT !.best_score = score]

\* line 282
IsSavedEpoch(e, n_epoch_saved) == e % n_epoch_saved = 0

\* lines 278-284: the _save_checkpoint calls of an epoch, in order
SaveCalls(unit, e, improved, n_epoch_saved) ==
    (IF improved THEN <<[unit |-> unit, epoch_id |-> e, is_best |-> TRUE]>> ELSE <<>>)
    \o (IF IsSavedEpoch(e, n_epoch_saved)
        THEN <<[unit |-> unit, epoch_id |-> e, is_best |-> FALSE]>> ELSE <<>>)
    \o <<[unit |-> unit, epoch_id |-> -1, is_best |-> FALSE]>>

RECURSIVE SaveAll(_, _)
SaveAll(dir, calls) ==
    IF calls = <<>> THEN dir
    ELSE SaveAll(SaveCheckpoint(dir, Head(calls)), Tail(calls))

\* the record `writes` keeps of a call made in epoch e
WriteLog(calls, e) ==
    [i \in 1..Len(calls) |->
        [label |-> Label(calls[i].epoch_id, calls[i].is_best),
         epoch |-> e,
         unit |-> calls[i].unit]]

\* the training data handed to fit: feat_n and label_n
TrainData == {[feat_n |-> 1, label_n |-> 1]}

\* lines 258-266: input and label sizes from the data, _build_model (lines 200-219:
\* the wrapped predictor, the persisted config), best_score initialised
FitStart(data, seed) ==
    /\ pc = "constructed"
    /\ LET s == [self EXCEPT !["input_size"] = PyInt(data.feat_n),
                             !["label_size"] = PyInt(data.label_n)]
       IN /\ self' = s
          /\ predictor' = DataParallel(callPredictor(PredictorConfig(s), seed))
          /\ predictor_config' = PredictorConfig(s)
    /\ best_score' = InitBest
    /\ epoch' = 0
    /\ pc' = "fitting"
    /\ op' = "fit"
    /\ exc' = NoExc
    /\ diag' = {}
    /\ UNCHANGED <<base_init, acc_valid, checkout_dir, writes, trained, loaded_epoch,
                   result_dir, ret, net, batch, all_output, cur_output>>

\* lines 267-284: one iteration of the epoch loop, `score` being the validation
\* loss _valid appends to self.acc['valid']
FitEpoch(score) ==
    /\ pc = "fitting"
    /\ epoch < self["n_epoch"].v
    /\ LET p == Train(predictor)
           improved == Improves(score, best_score)
           unit0 == Unit(epoch, p, score, best_score)
           unit == IF improved THEN MarkBest(unit0, score) ELSE unit0
           calls == SaveCalls(unit, epoch, improved, self["n_epoch_saved"].v)
       IN /\ predictor' = p
          /\ trained' = Parameters(p)
          /\ acc_valid' = Append(acc_valid, score)
          /\ best_score' = IF improved THEN score ELSE best_score
          /\ checkout_dir' = SaveAll(checkout_dir, calls)
          /\ writes' = writes \o WriteLog(calls, epoch)
    /\ epoch' = epoch + 1
    /\ UNCHANGED <<pc, self, base_init, exc, op, diag, predictor_config, loaded_epoch,
                   result_dir, ret, net, batch, all_output, cur_output>>

\* line 267: the range is exhausted and fit returns
FitReturn ==
    /\ pc = "fitting"
    /\ epoch = self["n_epoch"].v
    /\ pc' = "fitted"
    /\ UNCHANGED <<self, base_init, exc, op, diag, predictor, predictor_config, epoch,
                   best_score, acc_valid, checkout_dir, writes, trained, loaded_epoch,
                   result_dir, ret, net, batch, all_output, cur_output>>

\* the constructor calls a training run starts from
FitArgs ==
    {[BaseArgs EXCEPT !["n_epoch"] = PyInt(e), !["n_epoch_saved"] = PyInt(es)] :
        e \in 1..MaxEpoch, es \in 1..MaxEpoch}

ConstructFit == \E args \in FitArgs : Construct(args)
FitStartAny == \E data \in TrainData, seed \in Seeds : FitStart(data, seed)
FitEpochAny == \E score \in ScoreChoices : FitEpoch(score)

NextFit == ConstructFit \/ FitStartAny \/ FitEpochAny \/ FitReturn

SpecFit == Init /\ [][NextFit]_vars

-----------------------------------------------------------------------------
(* EmbedGRU.load_model, inference and get_results *)

\* the result files of a label, lines 334 and 338
HatYFile(label) == [kind |-> "hat_y", label |-> label]
YFile(label) == [kind |-> "y", label |-> label]

\* lines 308-311
ActiveLabel(loaded) == IF loaded # "" THEN loaded ELSE "best"

\* load_model, lines 306-321: the predictor is rebuilt from the persisted config
\* (from the random draw `seed`) before the checkpoint file is looked for
LoadModel(loaded, seed) ==
    /\ pc = "fitted"
    /\ op' = "load_model"
    /\ loaded_epoch' = ActiveLabel(loaded)
    /\ LET fresh == callPredictor(predictor_config, seed)
           label == ActiveLabel(loaded)
       IN IF label \in DOMAIN checkout_dir
          THEN LET sd == StripKeys(checkout_dir[label].state_dict)
               IN IF LoadAccepts(sd)
                  THEN /\ predictor' = LoadStateDict(fresh, sd)
                       /\ exc' = NoExc
                       /\ diag' = {"load"}
                  ELSE /\ predictor' = fresh
                       /\ exc' = [type |-> "RuntimeError", at |-> "load_state_dict"]
                       /\ diag' = {}
          ELSE /\ predictor' = fresh
               /\ exc' = NoExc
               /\ diag' = {"no exist"}
    /\ UNCHANGED <<pc, self, base_init, predictor_config, epoch, best_score, acc_valid,
                   checkout_dir, writes, trained, result_dir, ret, net, batch,
                   all_output, cur_output>>

\* inference, lines 364-365: _test (base class) persists the predictions and the
\* ground truth under the active label
Inference ==
    /\ pc = "fitted"
    /\ loaded_epoch # NoLabel
    /\ op' = "inference"
    /\ exc' = NoExc
    /\ diag' = {}
    /\ result_dir' = result_dir \cup {HatYFile(loaded_epoch), YFile(loaded_epoch)}
    /\ UNCHANGED <<pc, self, base_init, predictor, predictor_config, epoch, best_score,
                   acc_valid, checkout_dir, writes, trained, loaded_epoch, ret, net,
                   batch, all_output, cur_output>>

\* get_results, lines 333-344: a missing file is reported and leaves its local
\* unbound; line 342 then reads both locals
GetResults ==
    /\ pc = "fitted"
    /\ loaded_epoch # NoLabel
    /\ op' = "get_results"
    /\ LET hat_y == HatYFile(loaded_epoch)
           y == YFile(loaded_epoch)
       IN /\ diag' = {f.kind : f \in {hat_y, y} \ result_dir}
          /\ IF hat_y \notin result_dir
             THEN /\ exc' = [type |-> "UnboundLocalError", at |-> "hat_y"]
                  /\ ret' = PyNone
             ELSE IF y \notin result_dir
             THEN /\ exc' = [type |-> "UnboundLocalError", at |-> "y"]
                  /\ ret' = PyNone
             ELSE /\ exc' = NoExc
                  /\ ret' = [t |-> "dict", v |-> [hat_y |-> hat_y, y |-> y]]
    /\ UNCHANGED <<pc, self, base_init, predictor, predictor_config, epoch, best_score,
                   acc_valid, checkout_dir, writes, trained, loaded_epoch, result_dir,
                   net, batch, all_output, cur_output>>

\* the labels load_model is called with
LoadLabels == {"", "best", "latest"} \cup {ToString(e) : e \in 0..MaxReloadEpoch}

\* the constructor calls a reload scenario starts from
ReloadArgs ==
    {[BaseArgs EXCEPT !["n_epoch"] = PyInt(e), !["n_epoch_saved"] = PyInt(es)] :
        e \in 1..MaxReloadEpoch, es \in 1..MaxReloadEpoch}

ConstructReload == \E args \in ReloadArgs : Construct(args)
LoadModelAny == \E loaded \in LoadLabels, seed \in Seeds : LoadModel(loaded, seed)

NextReload ==
    \/ ConstructReload
    \/ FitStartAny
    \/ FitEpochAny
    \/ FitReturn
    \/ LoadModelAny
    \/ Inference
    \/ GetResults

SpecReload == Init /\ [][NextReload]_vars

-----------------------------------------------------------------------------
(* callPredictor.forward, for one sample with one feature, one hidden unit and one
   label *)

\* an nn.Linear with one input and one output
Linear(layer, x) == layer.weight * x + layer.bias

\* sum over the timestep axis
RECURSIVE SumSeq(_)
SumSeq(q) == IF q = <<>> THEN 0 ELSE Head(q) + SumSeq(Tail(q))

\* line 85: outputs * M.unsqueeze(-1)
Masked(outputs, M) == [t \in 1..Len(outputs) |-> outputs[t] * M[t]]

\* line 87: output_func applied per timestep to `outputs`
Project(layer, outputs) == [t \in 1..Len(outputs) |-> Linear(layer, outputs[t])]

\* line 88
Aggregate(all, cur_M) == SumSeq([t \in 1..Len(all) |-> all[t] * cur_M[t]])

\* the weights of embed_func and output_func, lines 35 and 44
Nets ==
    [embed_func : [weight : {1}, bias : {0}],
     output_func : [weight : 0..MaxVal, bias : 0..1]]

\* callPredictor.__init__ seen from forward: the two linear layers
BuildNet(n) ==
    /\ pc = "new"
    /\ net' = n
    /\ pc' = "net"
    /\ op' = "callPredictor"
    /\ UNCHANGED <<self, base_init, exc, diag, predictor, predictor_config, epoch,
                   best_score, acc_valid, checkout_dir, writes, trained, loaded_epoch,
                   result_dir, ret, batch, all_output, cur_output>>

\* forward, lines 75-89; `rnn_out` is what the recurrent stack (lines 82-83)
\* returns for the embedded sequence
Forward(X, M, cur_M, rnn_out) ==
    /\ pc = "net"
    /\ LET embed_X == [t \in 1..Len(X) |-> Linear(net.embed_func, X[t])]
           outputs == rnn_out
           masked == Masked(outputs, M)
           all == Project(net.output_func, outputs)
       IN /\ batch' = [X |-> X, M |-> M, cur_M |-> cur_M, embed |-> embed_X,
                       outputs |-> outputs, masked |-> masked]
          /\ all_output' = all
          /\ cur_output' = Aggregate(all, cur_M)
    /\ op' = "forward"
    /\ UNCHANGED <<pc, self, base_init, exc, diag, predictor, predictor_config, epoch,
                   best_score, acc_valid, checkout_dir, writes, trained, loaded_epoch,
                   result_dir, ret, net>>

BuildNetAny == \E n \in Nets : BuildNet(n)
ForwardAny ==
    /\ pc = "net"
    /\ \E T \in 1..MaxT :
        \E X \in [1..T -> 0..1], M \in [1..T -> 0..1], cur_M \in [1..T -> 0..1],
           rnn_out \in [1..T -> 0..MaxVal] :
            Forward(X, M, cur_M, rnn_out)

NextFwd == BuildNetAny \/ ForwardAny

SpecFwd == Init /\ [][NextFwd]_vars

-----------------------------------------------------------------------------
(* Properties of fit (SpecFit) *)

SetMin(S) == CHOOSE x \in S : \A y \in S : x <= y

\* the validation score of epoch e (0-based)
ScoreOf(e) == acc_valid[e + 1]

\* a checkpoint with this label was written in epoch e
WrittenAt(label, e) ==
    \E i \in 1..Len(writes) : writes[i].label = label /\ writes[i].epoch = e

\* the number of writes of a label
WriteCount(label) == Cardinality({i \in 1..Len(writes) : writes[i].label = label})

\* C1: in every epoch run so far, the "best" checkpoint is written if and only if
\* the epoch's validation score is strictly lower than the score of every earlier
\* epoch (the initial best acting as +infinity, so the first epoch always writes).
C1_BestWrittenIffStrictlyLowest ==
    \A e \in 0..(Len(acc_valid) - 1) :
        WrittenAt("best", e) <=> \A k \in 0..(e - 1) : ScoreOf(e) < ScoreOf(k)

\* C8: when fit has completed, the labels present are exactly "latest", "best" and
\* the numbered labels of the epochs e with e mod n_epoch_saved = 0; "latest" was
\* written once per epoch and a numbered file exactly in those epochs.
C8_FilesAfterFit ==
    pc = "fitted" =>
        LET n == self["n_epoch"].v
            es == self["n_epoch_saved"].v
        IN /\ DOMAIN checkout_dir =
                  {"latest", "best"} \cup {ToString(e) : e \in {x \in 0..(n - 1) : x % es = 0}}
           /\ WriteCount("latest") = n
           /\ \A e \in 0..(n - 1) : WrittenAt("latest", e)
           /\ \A e \in 0..(n - 1) : WrittenAt(ToString(e), e) <=> (e % es = 0)

\* C10: every checkpoint unit written in epoch e carries as best_score the minimum
\* of the initial best value and the scores of epochs 0..e, so best_score <= score;
\* a "best" unit has best_score = score; the best_score written never increases
\* from one write to the next; the files on disk are units that were written.
C10_BestScoreIsRunningMin ==
    /\ \A i \in 1..Len(writes) :
          LET w == writes[i]
          IN /\ w.unit.best_score =
                    SetMin({InitBest} \cup {ScoreOf(k) : k \in 0..w.epoch})
             /\ w.unit.best_score <= w.unit.score
             /\ w.unit.score = ScoreOf(w.epoch)
             /\ (w.label = "best" => w.unit.best_score = w.unit.score)
    /\ \A i \in 1..(Len(writes) - 1) :
          writes[i + 1].unit.best_score <= writes[i].unit.best_score
    /\ \A label \in DOMAIN checkout_dir :
          \E i \in 1..Len(writes) :
              writes[i].label = label /\ writes[i].unit = checkout_dir[label]

\* C10 witness: a run in which a "best" unit was written and a later epoch that did
\* not improve wrote a unit whose best_score is below its score.
C10_Witness ==
    \E i, j \in 1..Len(writes) :
        /\ writes[i].label = "best"
        /\ writes[j].label = "latest"
        /\ writes[i].epoch < writes[j].epoch
        /\ writes[j].unit.best_score < writes[j].unit.score
        /\ writes[j].unit.best_score = writes[i].unit.score

-----------------------------------------------------------------------------
(* Properties of load_model and get_results (SpecReload) *)

\* C2: load_model("latest") right after fit yields a predictor whose every
\* parameter (embedding, each recurrent layer, output projection) equals the
\* trained predictor's at the moment the checkpoint was saved.
C2_LatestRoundTrip ==
    (op = "load_model" /\ loaded_epoch = "latest" /\ exc = NoExc) =>
        Parameters(predictor) = trained

\* C3: load_model with a label that has no checkpoint file prints a diagnostic,
\* raises nothing and leaves the controller without a predictor.
C3_MissingLabelLeavesNoModel ==
    (op = "load_model" /\ loaded_epoch \notin DOMAIN checkout_dir) =>
        /\ diag # {}
        /\ exc = NoExc
        /\ predictor = NoPredictor

\* C4: get_results prints a diagnostic for each missing result file and returns
\* without raising, whichever of the two files are present.
C4_GetResultsNeverRaises ==
    op = "get_results" =>
        /\ exc = NoExc
        /\ (HatYFile(loaded_epoch) \notin result_dir => "hat_y" \in diag)
        /\ (YFile(loaded_epoch) \notin result_dir => "y" \in diag)

-----------------------------------------------------------------------------
(* Properties of forward (SpecFwd) *)

\* C9: all_output is the output projection of the recurrent output multiplied by
\* the validity mask (at a padded timestep, the projection of zero), and cur_output
\* is the sum over timesteps of all_output times the current-step mask.
C9_AllOutputMasked ==
    op = "forward" =>
        /\ \A t \in 1..Len(all_output) :
              all_output[t] = Linear(net.output_func, batch.outputs[t] * batch.M[t])
        /\ cur_output = Aggregate(all_output, batch.cur_M)

=============================================================================
